---------------------------- MODULE Spec2Model ----------------------------
(***************************************************************************)
(* Model of the document-processing API route (pages/api/process-document) *)
(* of document-analyzer-agent: the request handler, the formidable upload  *)
(* staging it drives, and runPythonScript with its stdout/stderr/close     *)
(* callbacks.  Text is modelled as sequences of one-character strings so   *)
(* that String.includes, String.split and String.trim are computed the way *)
(* the code computes them.                                                 *)
(***************************************************************************)
EXTENDS Integers, Sequences, FiniteSets, TLC

(***************************************************************************)
(* String literals of the source.                                          *)
(***************************************************************************)
MarkerExtracted ==
    <<"E", "x", "t", "r", "a", "c", "t", "e", "d", " ", "i", "n", "f", "o",
      "r", "m", "a", "t", "i", "o", "n", ":">>

MarkerGenerated ==
    <<"G", "e", "n", "e", "r", "a", "t", "e", "d", " ", "n", "e", "w", " ",
      "f", "i", "l", "e", "n", "a", "m", "e", ":">>

MarkerRenamed ==
    <<"F", "i", "l", "e", " ", "r", "e", "n", "a", "m", "e", "d", " ", "s",
      "u", "c", "c", "e", "s", "s", "f", "u", "l", "l", "y", " ", "t", "o",
      ":">>

MsgMethodNotAllowed ==
    <<"M", "e", "t", "h", "o", "d", " ", "n", "o", "t", " ", "a", "l", "l",
      "o", "w", "e", "d">>

MsgRequired ==
    <<"F", "i", "l", "e", " ", "a", "n", "d", " ", "n", "a", "m", "i", "n",
      "g", " ", "c", "o", "n", "v", "e", "n", "t", "i", "o", "n", " ", "a",
      "r", "e", " ", "r", "e", "q", "u", "i", "r", "e", "d">>

MsgProcessed ==
    <<"D", "o", "c", "u", "m", "e", "n", "t", " ", "p", "r", "o", "c", "e",
      "s", "s", "e", "d", " ", "s", "u", "c", "c", "e", "s", "s", "f", "u",
      "l", "l", "y">>

MsgServerError ==
    <<"S", "e", "r", "v", "e", "r", " ", "e", "r", "r", "o", "r", ":", " ">>

MsgExitedWithCode ==
    <<"P", "y", "t", "h", "o", "n", " ", "s", "c", "r", "i", "p", "t", " ",
      "e", "x", "i", "t", "e", "d", " ", "w", "i", "t", "h", " ", "c", "o",
      "d", "e", " ">>

MsgColon ==
    <<":", " ">>

MsgNull ==
    <<"n", "u", "l", "l">>

MsgMaxFileSize ==
    <<"o", "p", "t", "i", "o", "n", "s", ".", "m", "a", "x", "F", "i", "l",
      "e", "S", "i", "z", "e", " ", "e", "x", "c", "e", "e", "d", "e", "d">>

MsgSpawnE2big ==
    <<"s", "p", "a", "w", "n", " ", "E", "2", "B", "I", "G">>

AllowMethods ==
    <<"P", "O", "S", "T", ",", " ", "O", "P", "T", "I", "O", "N", "S">>

(***************************************************************************)
(* String operations of the JavaScript runtime, as the handler uses them.  *)
(***************************************************************************)
Whitespace == {" ", "\n"}

\* String.prototype.indexOf: the first index (1-based) at which sep occurs
\* in s, 0 when it does not occur.
IndexOf(s, sep) ==
    LET hits == {i \in 1..(Len(s) - Len(sep) + 1) :
                    SubSeq(s, i, i + Len(sep) - 1) = sep}
    IN  IF hits = {} THEN 0 ELSE CHOOSE i \in hits : \A j \in hits : i <= j

\* String.prototype.includes
Includes(s, sep) == IndexOf(s, sep) # 0

\* String.prototype.split with a non-empty separator: the list of the
\* pieces between the occurrences of sep, scanned left to right.
RECURSIVE Split(_, _)
Split(s, sep) ==
    LET i == IndexOf(s, sep)
    IN  IF i = 0
        THEN <<s>>
        ELSE <<SubSeq(s, 1, i - 1)>>
                 \o Split(SubSeq(s, i + Len(sep), Len(s)), sep)

\* parts[k] with JavaScript's 0-based index (used only where it exists).
Part(parts, k) == parts[k + 1]

RECURSIVE TrimStart(_)
TrimStart(s) ==
    IF s # <<>> /\ Head(s) \in Whitespace THEN TrimStart(Tail(s)) ELSE s

RECURSIVE TrimEnd(_)
TrimEnd(s) ==
    IF s # <<>> /\ s[Len(s)] \in Whitespace
    THEN TrimEnd(SubSeq(s, 1, Len(s) - 1))
    ELSE s

\* String.prototype.trim
Trim(s) == TrimEnd(TrimStart(s))

(***************************************************************************)
(* Bounds of the model.                                                    *)
(***************************************************************************)
\* stderr 'data' events delivered to one subprocess's listener
MaxStderrChunks == 2
\* largest exit status the analyzer returns
MaxExitCode == 1

\* The requests of one run.  Spec drives the requests of Active.
Reqs == {1, 2}
Active == {1}

\* The two revisions of pages/api/process-document.ts held by the
\* repository: 1 is the first copy (lines 1-142), 2 the second (144-301).
Revisions == {1, 2}

(***************************************************************************)
(* The stdout callback of runPythonScript.  st is the pair of closure       *)
(* variables [extractedInfo, newFilename], output the text of one chunk.    *)
(***************************************************************************)
ParseExtracted(rev, st, output) ==
    IF ~Includes(output, MarkerExtracted)
    THEN st.extractedInfo
    ELSE LET parts == Split(output, MarkerExtracted)
         IN  IF rev = 2 /\ Part(parts, 1) = <<>>
             THEN st.extractedInfo
             ELSE Trim(Part(Split(Part(parts, 1), MarkerGenerated), 0))

ParseGenerated(rev, st, output) ==
    IF ~Includes(output, MarkerGenerated)
    THEN st.newFilename
    ELSE LET parts == Split(output, MarkerGenerated)
         IN  IF rev = 1
             THEN Trim(Part(Split(Part(parts, 1), MarkerRenamed), 0))
             ELSE IF Part(parts, 1) = <<>>
             THEN st.newFilename
             ELSE IF Includes(Part(parts, 1), MarkerRenamed)
             THEN Trim(Part(Split(Part(parts, 1), MarkerRenamed), 1))
             ELSE Trim(Part(Split(Part(parts, 1), MarkerRenamed), 0))

\* Mutant: the rename marker is not looked for.
ParseRenamed_Ignored(rev, st, output) == st.newFilename

ParseRenamed(rev, st, output) ==
    IF Includes(output, MarkerRenamed)
    THEN Trim(Part(Split(output, MarkerRenamed), 1))
    ELSE st.newFilename

\* Mutant: the two fields are local to the listener and start empty on
\* every chunk.
OnStdout_FreshEachChunk(rev, st, output) ==
    LET s0 == [extractedInfo |-> <<>>, newFilename |-> <<>>]
        s1 == [s0 EXCEPT !.extractedInfo = ParseExtracted(rev, s0, output)]
        s2 == [s1 EXCEPT !.newFilename = ParseGenerated(rev, s1, output)]
    IN  [s2 EXCEPT !.newFilename = ParseRenamed(rev, s2, output)]

\* One run of the stdout 'data' listener: the three ifs in order.
OnStdout(rev, st, output) ==
    LET s1 == [st EXCEPT !.extractedInfo = ParseExtracted(rev, st, output)]
        s2 == [s1 EXCEPT !.newFilename = ParseGenerated(rev, s1, output)]
    IN  [s2 EXCEPT !.newFilename = ParseRenamed(rev, s2, output)]

\* Mutant: stdErr = data.toString(), the earlier chunks are lost.
OnStderr_Overwrite(stdErr, data) == data

\* One run of the stderr 'data' listener: stdErr += data.toString()
OnStderr(stdErr, data) == stdErr \o data

(***************************************************************************)
(* Values the handler receives.                                            *)
(***************************************************************************)
\* formidable's maxFileSize option: 10 * 1024 * 1024
maxFileSize == 10 * 1024 * 1024

\* A value of formidable.Fields / formidable.Files: undefined, one value,
\* or an array of values.
Undefined == [kind |-> "undefined", items |-> <<>>]
Single(x) == [kind |-> "value", items |-> <<x>>]
Array(xs) == [kind |-> "array", items |-> xs]
IsArray(v) == v.kind = "array"

\* The file formidable writes for the i-th file part of request r; its
\* filepath lies in uploadDir under a name formidable generates afresh.
\* Mutant: the file is stored under a name that does not depend on the
\* request (the name the client gave, say).
StagedFile_SharedName(r, i) == [filepath |-> <<1, i>>]

StagedFile(r, i) == [filepath |-> <<r, i>>]
NoPath == <<>>

Methods == {"POST", "OPTIONS", "GET"}

\* formidable hands single values (a lone file, a lone string) or, in its
\* later versions and for repeated parts, arrays.
Apis == {"value", "array"}
Wrap(api, xs) == IF api = "array" THEN Array(xs) ELSE Single(xs[1])

FileValues(r, api) ==
    {Undefined, Wrap(api, <<StagedFile(r, 1), StagedFile(r, 2)>>)}

\* A naming convention a trim or a shell would change.
NamingConventionText == <<" ", "c", ";", " ", "d", " ">>

NamingValues(api) ==
    {Undefined, Wrap(api, <<NamingConventionText, <<"d">> >>)}
        \cup (IF api = "value" THEN {Single(<<>>)} ELSE {})

UploadSizes == {1, maxFileSize + 1}

UploadsOf(r) ==
    UNION {[file : FileValues(r, api),
            namingConvention : NamingValues(api),
            size : UploadSizes] : api \in Apis}

NoUpload == [file |-> Undefined, namingConvention |-> Undefined, size |-> 0]

\* JavaScript truthiness of files.file (an object or an array when present)
\* and of fields.namingConvention (a string or an array when present).
TruthyFile(v) == v.kind # "undefined"
TruthyText(v) == v.kind = "array" \/ (v.kind = "value" /\ v.items[1] # <<>>)

\* Mutant: the naming convention is not checked.
MissingRequired_FileOnly(file, namingConvention) == ~TruthyFile(file)

\* if (!file || !namingConvention)
MissingRequired(file, namingConvention) ==
    ~TruthyFile(file) \/ ~TruthyText(namingConvention)

\* Array.isArray(x) ? x[0] : x
\* Mutant: the last value of a multi-value field is taken.
FirstOrSelf_Last(v) == IF IsArray(v) THEN Single(v.items[Len(v.items)]) ELSE v

FirstOrSelf(v) == IF IsArray(v) THEN Single(v.items[1]) ELSE v

\* The object or string a value that is not an array stands for.
ValueOf(v) == v.items[1]

\* form.parse: formidable writes every file part into uploadDir and hands
\* the callback (err, fields, files); a file larger than maxFileSize makes
\* it fail, and it removes what it had written of that upload.
FormidableParse(upload) ==
    LET tooBig == TruthyFile(upload.file) /\ upload.size > maxFileSize
    IN  [err     |-> tooBig,
         fields  |-> [namingConvention |-> upload.namingConvention],
         files   |-> [file |-> upload.file],
         written |-> IF tooBig THEN {}
                     ELSE {upload.file.items[i].filepath :
                              i \in 1..Len(upload.file.items)}]

(***************************************************************************)
(* What the analyzer subprocess can do.                                    *)
(***************************************************************************)
\* A script is the sequence of writes one run of the analyzer makes to its
\* stdout.  The pipe hands the 'data' listener chunks that are runs of
\* consecutive writes: a chunk boundary falls wherever the analyzer (or
\* its output buffer) ended a write, which may be inside a marker.
RECURSIVE Flatten(_, _, _)
Flatten(script, from, to) ==
    IF from > to THEN <<>>
    ELSE script[from] \o Flatten(script, from + 1, to)

\* Each character its own write: every split point of the text occurs.
Unbuffered(text) == [i \in 1..Len(text) |-> <<text[i]>>]

\* A text written in two writes, the first of k characters.
InTwo(text, k) == <<SubSeq(text, 1, k), SubSeq(text, k + 1, Len(text))>>

ScriptInfoOnly == Unbuffered(MarkerExtracted \o <<" ", "X", " ", "Y">>)

ScriptFull ==
    << <<"p", "\n">> >> \o InTwo(MarkerExtracted, 13) \o << <<" ", "I">> >>
        \o << <<" ">> \o MarkerGenerated, <<" ", "A", " ">> >>
        \o InTwo(MarkerRenamed, 4) \o << <<" ", "B">> >>

ScriptSwapped ==
    <<MarkerRenamed, <<" ", "B", "\n">>, MarkerGenerated, <<" ", "A">> >>

ScriptQuiet == << <<"o", "k", "\n">>, <<"o", "k", "\n">> >>

Scripts == {ScriptInfoOnly, ScriptFull, ScriptSwapped, ScriptQuiet}

\* Chunks the analyzer writes to stderr.
StderrChunks == {<<"e", "\n">>, MarkerExtracted \o <<" ", "Z">>}

\* The close event's code: an exit status, or null when a signal ended
\* the process.
NullCode == 0 - 1
ExitCodes == (0..MaxExitCode) \cup {NullCode}

\* How spawn() ends: the child runs; spawn throws (E2BIG and the like);
\* or the child emits 'error' on the next tick (ENOENT, EACCES).
LaunchOutcomes == {"ok", "throws", "error-event"}

Digits == <<"0", "1", "2", "3", "4", "5", "6", "7", "8", "9">>

RECURSIVE DecimalText(_)
DecimalText(n) ==
    IF n < 10 THEN <<Digits[n + 1]>>
    ELSE DecimalText(n \div 10) \o <<Digits[(n % 10) + 1]>>

\* `${code}` in a template literal
CodeText(code) == IF code = NullCode THEN MsgNull ELSE DecimalText(code)

\* new Error(`Python script exited with code ${code}: ${stdErr}`).message
ExitMessage(code, stdErr) ==
    MsgExitedWithCode \o CodeText(code) \o MsgColon \o stdErr

\* Mutant: the exit code is not looked at.
ExitRejects_Never(code) == FALSE

\* if (code !== 0) reject(...) else resolve(...)
ExitRejects(code) == code # 0

(***************************************************************************)
(* Responses.                                                              *)
(***************************************************************************)
NoResult == [present |-> FALSE, extractedInfo |-> <<>>, newFilename |-> <<>>]

\* res.status(200).end() after the Allow / Access-Control-* headers
PreflightResponse ==
    [status |-> 200, body |-> "empty", success |-> "absent",
     message |-> <<>>, result |-> NoResult, allow |-> AllowMethods]

\* res.status(405).json({ message: 'Method not allowed' })
MethodNotAllowedResponse ==
    [status |-> 405, body |-> "json", success |-> "absent",
     message |-> MsgMethodNotAllowed, result |-> NoResult, allow |-> <<>>]

\* res.status(400).json({ success: false, message: '... are required' })
RequiredResponse ==
    [status |-> 400, body |-> "json", success |-> "false",
     message |-> MsgRequired, result |-> NoResult, allow |-> <<>>]

\* Mutant: the two fields of the result are exchanged.
SuccessResponse_Swapped(result) ==
    [status |-> 200, body |-> "json", success |-> "true",
     message |-> MsgProcessed,
     result |-> [present |-> TRUE,
                 extractedInfo |-> result.newFilename,
                 newFilename |-> result.extractedInfo],
     allow |-> <<>>]

\* res.status(200).json({ success: true, extractedInfo, newFilename, ... })
SuccessResponse(result) ==
    [status |-> 200, body |-> "json", success |-> "true",
     message |-> MsgProcessed,
     result |-> [present |-> TRUE,
                 extractedInfo |-> result.extractedInfo,
                 newFilename |-> result.newFilename],
     allow |-> <<>>]

\* Mutant: the catch block answers with a result object in the body.
CatchResponse_WithResult(errorMessage) ==
    [status |-> 500, body |-> "json", success |-> "false",
     message |-> MsgServerError \o errorMessage,
     result |-> [present |-> TRUE, extractedInfo |-> errorMessage,
                 newFilename |-> <<>>],
     allow |-> <<>>]

\* The catch block: res.status(500).json({ success: false,
\*   message: `Server error: ${error.message}` })
CatchResponse(errorMessage) ==
    [status |-> 500, body |-> "json", success |-> "false",
     message |-> MsgServerError \o errorMessage, result |-> NoResult,
     allow |-> <<>>]

(***************************************************************************)
(* State.                                                                  *)
(***************************************************************************)
VARIABLES
    revision,    \* which copy of the route is deployed
    hostUp,      \* the Node process serving the route is alive
    uploadDir,   \* /tmp/document-analyzer exists
    disk,        \* filepaths of the files present in uploadDir
    rq           \* per request: handler position, closure variables, response

vars == <<revision, hostUp, uploadDir, disk, rq>>

IdleRequest ==
    [pc |-> "idle",            \* idle, parsing, running, abandoned, done
     method |-> "",
     upload |-> NoUpload,
     staged |-> {},            \* filepaths formidable wrote for the request
     filePath |-> NoPath,
     spawnCalls |-> <<>>,      \* the spawn() calls made, with their argv
     launch |-> "none",
     script |-> <<>>,          \* the writes the analyzer makes to stdout
     outPos |-> 0,             \* how many of them the listener has received
     extractedInfo |-> <<>>,
     newFilename |-> <<>>,
     stdErr |-> <<>>,
     errLog |-> <<>>,          \* the stderr chunks, in arrival order
     closed |-> FALSE,
     code |-> 0,
     unlinkThrew |-> FALSE,
     resps |-> <<>>]           \* the responses sent, in order

Init ==
    /\ revision \in Revisions
    /\ hostUp = TRUE
    /\ uploadDir = FALSE
    /\ disk = {}
    /\ rq = [r \in Reqs |-> IdleRequest]

Respond(req, response) ==
    [req EXCEPT !.pc = "done", !.resps = Append(@, response)]

(***************************************************************************)
(* handler, up to `await new Promise(... form.parse ...)`.                 *)
(***************************************************************************)
\* Mutant: the upload directory is made before the method is looked at.
HandlerEntry_MkdirFirst(r) ==
    /\ hostUp
    /\ rq[r].pc = "idle"
    /\ \E method \in Methods, upload \in UploadsOf(r) :
         LET req == [rq[r] EXCEPT !.method = method, !.upload = upload]
         IN  rq' = [rq EXCEPT ![r] =
                      IF revision = 1 /\ method = "OPTIONS"
                      THEN Respond(req, PreflightResponse)
                      ELSE IF method # "POST"
                      THEN Respond(req, MethodNotAllowedResponse)
                      ELSE [req EXCEPT !.pc = "parsing"]]
    /\ uploadDir' = TRUE
    /\ UNCHANGED <<revision, hostUp, disk>>

HandlerEntry(r) ==
    /\ hostUp
    /\ rq[r].pc = "idle"
    /\ \E method \in Methods, upload \in UploadsOf(r) :
         LET req == [rq[r] EXCEPT !.method = method, !.upload = upload]
         IN  IF revision = 1 /\ method = "OPTIONS"
             THEN /\ rq' = [rq EXCEPT ![r] = Respond(req, PreflightResponse)]
                  /\ UNCHANGED uploadDir
             ELSE IF method # "POST"
             THEN /\ rq' = [rq EXCEPT
                              ![r] = Respond(req, MethodNotAllowedResponse)]
                  /\ UNCHANGED uploadDir
             ELSE /\ rq' = [rq EXCEPT ![r] = [req EXCEPT !.pc = "parsing"]]
                  /\ uploadDir' = TRUE
    /\ UNCHANGED <<revision, hostUp, disk>>

(***************************************************************************)
(* runPythonScript up to the return of its promise: spawn and the three    *)
(* listeners.  launch is how spawn ends, script what the child will write. *)
(***************************************************************************)
ScriptPath == "scripts/document_analyzer.py"

\* Mutant: the naming convention is trimmed before it is passed on.
SpawnCall_Trimmed(rev, filePath, namingConvention) ==
    [command |-> IF rev = 1 THEN "python" ELSE "scripts/venv/bin/python",
     args |-> <<ScriptPath, filePath, Single(Trim(ValueOf(namingConvention)))>>,
     shell |-> FALSE]

\* spawn(command, [scriptPath, filePath, namingConvention]): an argument
\* array and no options, so no shell.
SpawnCall(rev, filePath, namingConvention) ==
    [command |-> IF rev = 1 THEN "python" ELSE "scripts/venv/bin/python",
     args |-> <<ScriptPath, filePath, namingConvention>>,
     shell |-> FALSE]

\* Mutant: the promise resolves as soon as the child is spawned.
RunPythonScript_NotAwaited(req, rev, filePath, namingConvention, launch, script) ==
    Respond([req EXCEPT
               !.filePath = filePath,
               !.spawnCalls =
                   Append(@, SpawnCall(rev, filePath, namingConvention)),
               !.launch = launch,
               !.script = script],
            SuccessResponse([extractedInfo |-> <<>>, newFilename |-> <<>>]))

RunPythonScript(req, rev, filePath, namingConvention, launch, script) ==
    LET called == [req EXCEPT
                     !.filePath = filePath,
                     !.spawnCalls =
                         Append(@, SpawnCall(rev, filePath, namingConvention)),
                     !.launch = launch,
                     !.extractedInfo = <<>>,
                     !.stdErr = <<>>,
                     !.newFilename = <<>>]
    IN  IF launch = "throws"
        THEN Respond(called, CatchResponse(MsgSpawnE2big))
        ELSE [called EXCEPT !.pc = "running", !.script = script]

(***************************************************************************)
(* The form.parse callback and the handler from there to                   *)
(* `await runPythonScript(...)`.                                           *)
(***************************************************************************)
FormParsed(r) ==
    /\ hostUp
    /\ rq[r].pc = "parsing"
    /\ LET parsed == FormidableParse(rq[r].upload)
           file == parsed.files.file
           namingConvention == parsed.fields.namingConvention
           req == [rq[r] EXCEPT !.staged = parsed.written]
       IN  /\ disk' = disk \cup parsed.written
           /\ IF parsed.err
              THEN rq' = [rq EXCEPT
                            ![r] = Respond(req, CatchResponse(MsgMaxFileSize))]
              ELSE IF MissingRequired(file, namingConvention)
              THEN rq' = [rq EXCEPT ![r] = Respond(req, RequiredResponse)]
              ELSE \E launch \in LaunchOutcomes :
                   \E script \in IF launch = "ok" THEN Scripts ELSE {<<>>} :
                     rq' = [rq EXCEPT ![r] =
                                 RunPythonScript(req, revision,
                                     ValueOf(FirstOrSelf(file)).filepath,
                                     FirstOrSelf(namingConvention),
                                     launch, script)]
    /\ UNCHANGED <<revision, hostUp, uploadDir>>

(***************************************************************************)
(* The child's 'error' event after a failed launch.  No 'error' listener   *)
(* is registered, so emit('error') throws inside the next-tick callback:   *)
(* an uncaught exception.  Node's default ends the process; a host that    *)
(* installs an uncaughtException handler survives.  Either way 'close' is  *)
(* never emitted and the promise of runPythonScript stays pending.         *)
(***************************************************************************)
ChildError(r) ==
    /\ hostUp
    /\ rq[r].pc = "running"
    /\ rq[r].launch = "error-event"
    /\ rq' = [rq EXCEPT ![r].pc = "abandoned"]
    /\ hostUp' \in BOOLEAN
    /\ UNCHANGED <<revision, uploadDir, disk>>

\* The child is alive: it was launched and has not closed.
ChildRunning(req) == req.pc = "running" /\ req.launch = "ok"

(***************************************************************************)
(* pythonProcess.stdout.on('data', ...): the next chunk, any number of the *)
(* script's next writes.                                                   *)
(***************************************************************************)
\* Mutant: the staged file is removed as soon as the child has written.
StdoutData_Unlinks(r) ==
    /\ hostUp
    /\ ChildRunning(rq[r])
    /\ rq[r].outPos < Len(rq[r].script)
    /\ rq' = [rq EXCEPT ![r].outPos = Len(rq[r].script)]
    /\ disk' = disk \ {rq[r].filePath}
    /\ UNCHANGED <<revision, hostUp, uploadDir>>

StdoutData(r) ==
    /\ hostUp
    /\ ChildRunning(rq[r])
    /\ \E to \in (rq[r].outPos + 1)..Len(rq[r].script) :
         LET output == Flatten(rq[r].script, rq[r].outPos + 1, to)
             st == OnStdout(revision,
                            [extractedInfo |-> rq[r].extractedInfo,
                             newFilename |-> rq[r].newFilename],
                            output)
         IN  rq' = [rq EXCEPT ![r].outPos = to,
                              ![r].extractedInfo = st.extractedInfo,
                              ![r].newFilename = st.newFilename]
    /\ UNCHANGED <<revision, hostUp, uploadDir, disk>>

(***************************************************************************)
(* pythonProcess.stderr.on('data', ...)                                    *)
(***************************************************************************)
\* Mutant: the stderr listener runs the stdout parser on its chunk too.
StderrData_Parsed(r) ==
    /\ hostUp
    /\ ChildRunning(rq[r])
    /\ Len(rq[r].errLog) < MaxStderrChunks
    /\ \E data \in StderrChunks :
         LET st == OnStdout(revision,
                            [extractedInfo |-> rq[r].extractedInfo,
                             newFilename |-> rq[r].newFilename],
                            data)
         IN  rq' = [rq EXCEPT ![r].stdErr = OnStderr(@, data),
                              ![r].errLog = Append(@, data),
                              ![r].extractedInfo = st.extractedInfo,
                              ![r].newFilename = st.newFilename]
    /\ UNCHANGED <<revision, hostUp, uploadDir, disk>>

StderrData(r) ==
    /\ hostUp
    /\ ChildRunning(rq[r])
    /\ Len(rq[r].errLog) < MaxStderrChunks
    /\ \E data \in StderrChunks :
         rq' = [rq EXCEPT ![r].stdErr = OnStderr(@, data),
                          ![r].errLog = Append(@, data)]
    /\ UNCHANGED <<revision, hostUp, uploadDir, disk>>

(***************************************************************************)
(* pythonProcess.on('close', ...) and the handler after the await: the     *)
(* catch block on a rejection, else unlinkSync in its try/catch and the    *)
(* 200 response.  unlinkThrows: whether fs.unlinkSync(filePath) throws     *)
(* (the analyzer may have renamed or removed the file); the handler only   *)
(* logs that.                                                              *)
(***************************************************************************)
\* Mutant: the exception of unlinkSync reaches the handler's outer catch.
AfterCleanup_Propagates(unlinkThrows, result) ==
    IF unlinkThrows
    THEN CatchResponse(<<"E", "N", "O", "E", "N", "T">>)
    ELSE SuccessResponse(result)

\* The response after the try/catch around unlinkSync: the catch only logs.
AfterCleanup(unlinkThrows, result) == SuccessResponse(result)

Close(r) ==
    /\ hostUp
    /\ ChildRunning(rq[r])
    /\ \E code \in ExitCodes :
         LET req == [rq[r] EXCEPT !.closed = TRUE, !.code = code]
         IN  IF ExitRejects(code)
             THEN /\ rq' = [rq EXCEPT ![r] =
                              Respond(req,
                                  CatchResponse(ExitMessage(code, req.stdErr)))]
                  /\ UNCHANGED disk
             ELSE \E unlinkThrows \in BOOLEAN :
                  /\ rq' = [rq EXCEPT ![r] =
                              Respond([req EXCEPT !.unlinkThrew = unlinkThrows],
                                  AfterCleanup(unlinkThrows,
                                      [extractedInfo |-> req.extractedInfo,
                                       newFilename |-> req.newFilename]))]
                  /\ disk' = IF unlinkThrows THEN disk
                             ELSE disk \ {req.filePath}
    /\ UNCHANGED <<revision, hostUp, uploadDir>>

Step(r) ==
    \/ HandlerEntry(r)
    \/ FormParsed(r)
    \/ ChildError(r)
    \/ StdoutData(r)
    \/ StderrData(r)
    \/ Close(r)

Next == \E r \in Active : Step(r)

Spec == Init /\ [][Next]_vars

(***************************************************************************)
(* Two requests in flight at once: every interleaving of the handler steps *)
(* and subprocess events of both.  To keep the product of the two          *)
(* requests' states small, the inputs are a part of those of Spec: POST    *)
(* with a single file of admissible size, two of the scripts, one kind of  *)
(* stderr chunk.                                                           *)
(***************************************************************************)
ConcurrentScripts == {ScriptSwapped, ScriptQuiet}

ConcurrentInput(req) ==
    /\ req.method \in {"", "POST"}
    /\ req.upload.file.kind \in {"undefined", "value"}
    /\ req.upload.namingConvention.kind \in {"undefined", "value"}
    /\ req.upload.size <= 1
    /\ req.script \in ConcurrentScripts \cup {<<>>}
    /\ \A i \in 1..Len(req.errLog) : req.errLog[i] = <<"e", "\n">>

NextConcurrent ==
    \E r \in Reqs :
        \/ HandlerEntry(r) /\ ConcurrentInput(rq'[r])
        \/ FormParsed(r) /\ ConcurrentInput(rq'[r])
        \/ ChildError(r)
        \/ StdoutData(r)
        \/ StderrData(r) /\ ConcurrentInput(rq'[r])
        \/ Close(r)

SpecConcurrent == Init /\ [][NextConcurrent]_vars

(***************************************************************************)
(* One request with a fair event loop: a callback that is ready to run is  *)
(* run (the form.parse callback, the data listeners, the 'error' event).   *)
(* Nothing makes a request arrive and nothing makes the analyzer exit:     *)
(* the code sets no timer and never kills the child, so HandlerEntry and   *)
(* Close carry no fairness.                                                *)
(***************************************************************************)
SpecLive ==
    /\ Init
    /\ [][Next]_vars
    /\ \A r \in Active :
         /\ WF_vars(FormParsed(r))
         /\ WF_vars(ChildError(r))
         /\ WF_vars(StdoutData(r))
         /\ WF_vars(StderrData(r))

(***************************************************************************)
(* Vocabulary of the properties.                                           *)
(***************************************************************************)
IsPost(req) == req.method = "POST"
Responded(req) == req.resps # <<>>
\* The handler is still at work on the request (or has not seen it yet).
Processing == {"idle", "parsing", "running"}
\* The stdout text the listener has received so far, all chunks together.
Received(req) == Flatten(req.script, 1, req.outPos)
\* The stderr chunks received so far, in arrival order, as one text.
StderrText(req) == Flatten(req.errLog, 1, Len(req.errLog))
NoMarkerIn(text) ==
    /\ ~Includes(text, MarkerExtracted)
    /\ ~Includes(text, MarkerGenerated)
    /\ ~Includes(text, MarkerRenamed)
EmptyFields == [extractedInfo |-> <<>>, newFilename |-> <<>>]

(***************************************************************************)
(* C1: after any outcome of a POST request (success, validation failure,   *)
(* launch failure, analyzer failure) no file staged for that request is    *)
(* left on disk when the response is returned.                             *)
(***************************************************************************)
C1_StagedFileGoneAfterOutcome ==
    \A r \in Reqs :
        (IsPost(rq[r]) /\ Responded(rq[r])) => rq[r].staged \cap disk = {}

(***************************************************************************)
(* C2: a POST request whose file part or namingConvention part is missing  *)
(* ends in a failure response, and spawn is never called for it.           *)
(***************************************************************************)
PartMissing(req) ==
    req.upload.file = Undefined \/ req.upload.namingConvention = Undefined

C2_MissingPartFailsWithoutSpawn ==
    \A r \in Reqs :
        (IsPost(rq[r]) /\ PartMissing(rq[r])) =>
            /\ rq[r].spawnCalls = <<>>
            /\ rq[r].pc \in {"parsing", "done"}
            /\ rq[r].pc = "done" =>
                 /\ Len(rq[r].resps) = 1
                 /\ rq[r].resps[1].success = "false"
                 /\ rq[r].resps[1].status >= 400

C2_Witness ==
    \E r \in Reqs :
        /\ IsPost(rq[r])
        /\ rq[r].upload.file # Undefined
        /\ rq[r].upload.namingConvention = Undefined
        /\ rq[r].pc = "done"
        /\ rq[r].resps[1].status = 400

(***************************************************************************)
(* C3: when the subprocess closes with a nonzero exit code the outcome is  *)
(* a failure, whatever it wrote to stdout, all three markers included.     *)
(***************************************************************************)
C3_NonzeroExitIsFailure ==
    \A r \in Reqs :
        (rq[r].closed /\ rq[r].code # 0) =>
            /\ Len(rq[r].resps) = 1
            /\ rq[r].resps[1].success = "false"
            /\ rq[r].resps[1].status = 500
            /\ ~rq[r].resps[1].result.present

C3_Witness ==
    \E r \in Reqs :
        /\ rq[r].closed
        /\ rq[r].code = 1
        /\ Includes(Received(rq[r]), MarkerExtracted)
        /\ Includes(Received(rq[r]), MarkerGenerated)
        /\ Includes(Received(rq[r]), MarkerRenamed)
        /\ rq[r].extractedInfo = <<"I">>
        /\ rq[r].newFilename = <<"B">>
        /\ rq[r].resps[1].success = "false"

(***************************************************************************)
(* C4: "Extracted information:" split over two consecutive stdout chunks   *)
(* at any place is still recognised: once the chunk that completes the     *)
(* marker and carries the text after it has arrived, extractedInfo is      *)
(* that text, trimmed.                                                     *)
(***************************************************************************)
C4_SplitMarkerRecognised ==
    [][\A r \in Reqs :
          ( /\ ChildRunning(rq[r])
            /\ rq[r].script = ScriptInfoOnly
            /\ rq[r].outPos \in 1..(Len(MarkerExtracted) - 1)
            /\ rq'[r].outPos = Len(ScriptInfoOnly) )
          => rq'[r].extractedInfo = <<"X", " ", "Y">>]_vars

(***************************************************************************)
(* C5: a first chunk ending in "Extracted information: I", then a second   *)
(* chunk " Generated new filename: A File renamed successfully to: B",     *)
(* leave extractedInfo = "I" and newFilename = "B": the rename marker      *)
(* overrides the generated name and the second chunk leaves extractedInfo  *)
(* alone.                                                                  *)
(***************************************************************************)
\* The number of writes of ScriptFull that make up the first chunk.
FirstChunkWrites ==
    CHOOSE k \in 1..Len(ScriptFull) :
        Flatten(ScriptFull, 1, k)
            = <<"p", "\n">> \o MarkerExtracted \o <<" ", "I">>

AfterFirstChunk(req) ==
    /\ ChildRunning(req)
    /\ req.script = ScriptFull
    /\ req.outPos = FirstChunkWrites
    /\ [extractedInfo |-> req.extractedInfo, newFilename |-> req.newFilename]
         = OnStdout(revision, EmptyFields, Flatten(ScriptFull, 1, FirstChunkWrites))

C5_TwoChunkParse ==
    [][\A r \in Reqs :
          (AfterFirstChunk(rq[r]) /\ rq'[r].outPos = Len(ScriptFull))
          => /\ rq[r].extractedInfo = <<"I">>
             /\ rq'[r].extractedInfo = <<"I">>
             /\ rq'[r].newFilename = <<"B">>]_vars

C5_Witness ==
    \E r \in Reqs :
        /\ rq[r].script = ScriptFull
        /\ rq[r].outPos = Len(ScriptFull)
        /\ rq[r].extractedInfo = <<"I">>
        /\ rq[r].newFilename = <<"B">>

(***************************************************************************)
(* C6: when the analyzer cannot be launched the request ends in a          *)
(* server-error response with a message; the host process stays up and     *)
(* the request is not left without a response.                             *)
(***************************************************************************)
LaunchFailed(req) == req.launch \in {"throws", "error-event"}

C6_LaunchFailureAnswered ==
    /\ hostUp
    /\ \A r \in Reqs :
         (LaunchFailed(rq[r]) /\ rq[r].pc # "running") =>
             /\ Len(rq[r].resps) = 1
             /\ rq[r].resps[1].status = 500
             /\ rq[r].resps[1].message # <<>>

(***************************************************************************)
(* C7: an upload above the 10 MiB ceiling is answered with a client-error  *)
(* status (4xx, not 5xx) and no subprocess is launched.                    *)
(***************************************************************************)
Oversized(req) ==
    IsPost(req) /\ req.upload.file # Undefined /\ req.upload.size > maxFileSize

C7_OversizeIsClientError ==
    \A r \in Reqs :
        Oversized(rq[r]) =>
            /\ rq[r].spawnCalls = <<>>
            /\ Responded(rq[r]) => rq[r].resps[1].status \in 400..499

(***************************************************************************)
(* C8: on a nonzero exit the failure message holds the exit code and the   *)
(* whole stderr text: every stderr chunk received, in arrival order.       *)
(***************************************************************************)
C8_FailureMessageCarriesCodeAndStderr ==
    \A r \in Reqs :
        (rq[r].closed /\ rq[r].code # 0) =>
            /\ Len(rq[r].resps) = 1
            /\ rq[r].resps[1].message =
                 MsgServerError \o MsgExitedWithCode \o CodeText(rq[r].code)
                     \o MsgColon \o StderrText(rq[r])

C8_Witness ==
    \E r \in Reqs :
        /\ rq[r].closed
        /\ rq[r].code = 1
        /\ Len(rq[r].errLog) = 2
        /\ rq[r].errLog[1] # rq[r].errLog[2]
        /\ Responded(rq[r])
        /\ Includes(rq[r].resps[1].message, <<"1", ":", " ">> \o StderrText(rq[r]))

(***************************************************************************)
(* C9: on exit code 0 the outcome is a success that carries exactly the    *)
(* extractedInfo and newFilename the parser holds at close; when no marker *)
(* appeared in stdout both are empty and the outcome is still a success.   *)
(***************************************************************************)
C9_ZeroExitIsSuccessWithParsedFields ==
    \A r \in Reqs :
        (rq[r].closed /\ rq[r].code = 0) =>
            /\ Len(rq[r].resps) = 1
            /\ rq[r].resps[1].status = 200
            /\ rq[r].resps[1].success = "true"
            /\ rq[r].resps[1].result =
                 [present |-> TRUE,
                  extractedInfo |-> rq[r].extractedInfo,
                  newFilename |-> rq[r].newFilename]
            /\ NoMarkerIn(Received(rq[r])) =>
                 /\ rq[r].resps[1].result.extractedInfo = <<>>
                 /\ rq[r].resps[1].result.newFilename = <<>>

C9_Witness ==
    \E r \in Reqs :
        /\ rq[r].closed
        /\ rq[r].code = 0
        /\ rq[r].script = ScriptQuiet
        /\ rq[r].outPos = Len(ScriptQuiet)
        /\ rq[r].resps[1].success = "true"
        /\ rq[r].resps[1].result.extractedInfo = <<>>
        /\ rq[r].resps[1].result.newFilename = <<>>

(***************************************************************************)
(* C10: each request gets exactly one response, never none and never two,  *)
(* and once it is sent nothing more is done for the request: no staging,   *)
(* spawn, parsing or cleanup.                                              *)
(***************************************************************************)
C10_ExactlyOneOutcome ==
    [][\A r \in Reqs :
          /\ Len(rq'[r].resps) <= 1
          /\ rq'[r].pc \notin Processing => Len(rq'[r].resps) = 1
          /\ Responded(rq[r]) =>
               /\ rq'[r] = rq[r]
               /\ disk' \cap rq[r].staged = disk \cap rq[r].staged]_vars

(***************************************************************************)
(* C11: two requests processed at the same time do not interfere, under    *)
(* every interleaving of their stdout, stderr and close events: an event   *)
(* of one request leaves the other request's state, staged files and host  *)
(* untouched; each request's stderr text and response are those its own    *)
(* events determine; and the two requests stage their files under          *)
(* different paths.                                                        *)
(***************************************************************************)
\* What the close of a request's own child makes of its own variables.
OwnOutcome(req) ==
    IF req.code # 0
    THEN CatchResponse(ExitMessage(req.code, StderrText(req)))
    ELSE SuccessResponse([extractedInfo |-> req.extractedInfo,
                          newFilename |-> req.newFilename])

C11_ConcurrentIsolation ==
    [][\A r \in Reqs : \A o \in Reqs \ {r} :
          /\ rq'[r].staged \cap rq'[o].staged = {}
          /\ rq'[r].stdErr = StderrText(rq'[r])
          /\ rq'[r].closed => rq'[r].resps = <<OwnOutcome(rq'[r])>>
          /\ rq'[r] # rq[r] =>
               /\ rq'[o] = rq[o]
               /\ disk' \cap rq[o].staged = disk \cap rq[o].staged
               /\ ChildRunning(rq[r]) => hostUp' = hostUp]_vars

C11_Witness ==
    /\ ChildRunning(rq[1])
    /\ rq[1].newFilename = <<"B">>
    /\ rq[1].errLog = <<>>
    /\ rq[2].closed
    /\ rq[2].code = 1
    /\ rq[2].script = ScriptSwapped
    /\ rq[2].outPos = Len(ScriptSwapped)
    /\ rq[2].newFilename = <<"A">>
    /\ rq[2].errLog # <<>>
    /\ rq[1].staged # {}
    /\ rq[1].staged \subseteq disk

(***************************************************************************)
(* C12: the status of a response follows the kind of outcome: a validation *)
(* failure (a missing part or an oversized upload) is answered 4xx, an     *)
(* analyzer or process failure 5xx, a success 2xx with success = true, and *)
(* no response pairs a status class with another kind of outcome.          *)
(***************************************************************************)
ValidationFailure(req) ==
    /\ IsPost(req)
    /\ \/ Oversized(req)
       \/ MissingRequired(req.upload.file, req.upload.namingConvention)

ProcessFailure(req) ==
    \/ req.closed /\ req.code # 0
    \/ req.spawnCalls # <<>> /\ LaunchFailed(req)

Succeeded(req) == req.closed /\ req.code = 0

C12_StatusFollowsOutcome ==
    \A r \in Reqs :
        (IsPost(rq[r]) /\ Responded(rq[r])) =>
            LET status == rq[r].resps[1].status IN
            /\ ValidationFailure(rq[r]) <=> status \in 400..499
            /\ ProcessFailure(rq[r]) <=> status \in 500..599
            /\ Succeeded(rq[r]) <=>
                 (status \in 200..299 /\ rq[r].resps[1].success = "true")

(***************************************************************************)
(* C13: when deleting the staged file throws, the outcome already          *)
(* determined stands: a request whose subprocess exited 0 is answered      *)
(* with the same success response, parsed fields included, as when the     *)
(* deletion goes through.                                                  *)
(***************************************************************************)
C13_CleanupFailureOnlyLogged ==
    \A r \in Reqs :
        (rq[r].closed /\ rq[r].code = 0 /\ rq[r].unlinkThrew) =>
            rq[r].resps =
                <<SuccessResponse([extractedInfo |-> rq[r].extractedInfo,
                                   newFilename |-> rq[r].newFilename])>>

C13_Witness ==
    \E r \in Reqs :
        /\ rq[r].closed
        /\ rq[r].code = 0
        /\ rq[r].unlinkThrew
        /\ rq[r].filePath \in disk
        /\ rq[r].resps[1].status = 200
        /\ rq[r].resps[1].success = "true"
        /\ rq[r].resps[1].result.extractedInfo = <<"I">>
        /\ rq[r].resps[1].result.newFilename = <<"B">>

(***************************************************************************)
(* C14: a pre-flight (OPTIONS) request is answered with an empty success   *)
(* response that advertises the accepted methods; no file is staged and    *)
(* no subprocess is launched for it.                                       *)
(***************************************************************************)
IsPreflight(req) == req.method = "OPTIONS"

C14_PreflightAnswered ==
    \A r \in Reqs :
        IsPreflight(rq[r]) =>
            /\ rq[r].staged = {}
            /\ rq[r].spawnCalls = <<>>
            /\ Len(rq[r].resps) = 1
            /\ rq[r].resps[1].status \in 200..299
            /\ rq[r].resps[1].body = "empty"
            /\ rq[r].resps[1].allow = AllowMethods

(***************************************************************************)
(* C15: every failure response holds a non-empty message, and its          *)
(* extractedInfo and newFilename are omitted or empty, also when the       *)
(* parser had captured values before the subprocess exited nonzero.        *)
(***************************************************************************)
IsFailureResponse(response) == response.status >= 400

FieldsOmittedOrEmpty(response) ==
    \/ ~response.result.present
    \/ /\ response.result.extractedInfo = <<>>
       /\ response.result.newFilename = <<>>

C15_FailureHasMessageAndNoFields ==
    \A r \in Reqs : \A i \in 1..Len(rq[r].resps) :
        IsFailureResponse(rq[r].resps[i]) =>
            /\ rq[r].resps[i].message # <<>>
            /\ FieldsOmittedOrEmpty(rq[r].resps[i])

C15_Witness ==
    \E r \in Reqs :
        /\ rq[r].closed
        /\ rq[r].code # 0
        /\ rq[r].extractedInfo # <<>>
        /\ rq[r].newFilename # <<>>
        /\ IsFailureResponse(rq[r].resps[1])
        /\ rq[r].resps[1].message # <<>>
        /\ ~rq[r].resps[1].result.present

(***************************************************************************)
(* C16: the analyzer is invoked with the staged file path and then the     *)
(* naming convention as its positional arguments, as separate argument     *)
(* tokens with no shell in between, and the naming convention is the text  *)
(* the request carried, unchanged.                                         *)
(***************************************************************************)
\* The first value the request gave under a field name.
FirstSent(v) == v.items[1]

C16_ArgumentsInOrderVerbatim ==
    \A r \in Reqs : \A i \in 1..Len(rq[r].spawnCalls) :
        LET call == rq[r].spawnCalls[i] IN
        /\ ~call.shell
        /\ Len(call.args) = 3
        /\ call.args[1] = ScriptPath
        /\ call.args[2] = FirstSent(rq[r].upload.file).filepath
        /\ call.args[2] \in rq[r].staged
        /\ call.args[3] = Single(FirstSent(rq[r].upload.namingConvention))

C16_Witness ==
    \E r \in Reqs :
        /\ Len(rq[r].spawnCalls) = 1
        /\ rq[r].upload.namingConvention.kind = "array"
        /\ rq[r].spawnCalls[1].args[2] = StagedFile(r, 1).filepath
        /\ rq[r].spawnCalls[1].args[3] = Single(NamingConventionText)
        /\ rq[r].closed

(***************************************************************************)
(* C17: the markers may come in any chunk order: once a chunk with         *)
(* "File renamed successfully to: B" has been received, newFilename stays  *)
(* "B" when a later chunk holds only "Generated new filename: A".          *)
(***************************************************************************)
\* The number of writes of ScriptSwapped that make up the rename chunk.
RenameChunkWrites ==
    CHOOSE k \in 1..Len(ScriptSwapped) :
        Flatten(ScriptSwapped, 1, k) = MarkerRenamed \o <<" ", "B", "\n">>

AfterRenameChunk(req) ==
    /\ ChildRunning(req)
    /\ req.script = ScriptSwapped
    /\ req.outPos = RenameChunkWrites
    /\ req.newFilename = <<"B">>

C17_RenameSurvivesLaterGenerated ==
    [][\A r \in Reqs :
          (AfterRenameChunk(rq[r]) /\ rq'[r].outPos = Len(ScriptSwapped))
          => rq'[r].newFilename = <<"B">>]_vars

(***************************************************************************)
(* C18: after every stdout chunk extractedInfo is the trimmed text that    *)
(* follows "Extracted information:" in all the stdout received so far, up  *)
(* to "Generated new filename:" when that marker is there and else up to   *)
(* the end of what was received; text of the field that arrives in later   *)
(* chunks than the marker is part of it.                                   *)
(***************************************************************************)
InfoOfAccumulated(text) ==
    Trim(Part(Split(Part(Split(text, MarkerExtracted), 1), MarkerGenerated), 0))

C18_InfoFromAccumulatedStdout ==
    \A r \in Reqs :
        (rq[r].launch = "ok" /\ Includes(Received(rq[r]), MarkerExtracted))
            => rq[r].extractedInfo = InfoOfAccumulated(Received(rq[r]))

(***************************************************************************)
(* C19: the staged file is deleted only after the analyzer subprocess has  *)
(* closed: while a request's subprocess is running its staged file is on   *)
(* disk, and the only step that takes it away is the one that handles the  *)
(* close of that subprocess.                                               *)
(***************************************************************************)
C19_NoDeletionWhileRunning ==
    [][\A r \in Reqs :
          /\ ChildRunning(rq[r]) => rq[r].filePath \in disk
          /\ ChildRunning(rq'[r]) => rq'[r].filePath \in disk'
          /\ \A f \in rq[r].staged :
               (f \in disk /\ f \notin disk') =>
                   /\ f = rq[r].filePath
                   /\ ChildRunning(rq[r])
                   /\ rq'[r].closed]_vars

C19_Witness ==
    \E r \in Reqs :
        /\ rq[r].closed
        /\ rq[r].code = 0
        /\ rq[r].outPos = Len(rq[r].script)
        /\ rq[r].errLog # <<>>
        /\ ~rq[r].unlinkThrew
        /\ rq[r].filePath \in rq[r].staged
        /\ rq[r].filePath \notin disk

(***************************************************************************)
(* C20: a stderr chunk is appended as it is to the stderr accumulator and  *)
(* changes neither extractedInfo nor newFilename, also when its text       *)
(* holds one of the stdout markers; a stdout chunk leaves the stderr       *)
(* accumulator as it was.                                                  *)
(***************************************************************************)
StderrArrived(old, new) == Len(new.errLog) = Len(old.errLog) + 1

StdoutArrived(old, new) == ChildRunning(old) /\ new.outPos > old.outPos

C20_StderrOnlyAccumulated ==
    [][\A r \in Reqs :
          /\ StderrArrived(rq[r], rq'[r]) =>
               /\ rq'[r].stdErr =
                    rq[r].stdErr \o rq'[r].errLog[Len(rq'[r].errLog)]
               /\ rq'[r].extractedInfo = rq[r].extractedInfo
               /\ rq'[r].newFilename = rq[r].newFilename
               /\ rq'[r].outPos = rq[r].outPos
          /\ StdoutArrived(rq[r], rq'[r]) =>
               /\ rq'[r].stdErr = rq[r].stdErr
               /\ rq'[r].errLog = rq[r].errLog]_vars

C20_Witness ==
    \E r \in Reqs :
        /\ ChildRunning(rq[r])
        /\ rq[r].script = ScriptFull
        /\ rq[r].outPos = Len(ScriptFull)
        /\ rq[r].extractedInfo = <<"I">>
        /\ rq[r].errLog = <<MarkerExtracted \o <<" ", "Z">>, <<"e", "\n">> >>
        /\ rq[r].stdErr = MarkerExtracted \o <<" ", "Z", "e", "\n">>

(***************************************************************************)
(* C21: no timeout: a request whose analyzer was launched has an outcome   *)
(* exactly when the subprocess has closed.  Until the close there is no    *)
(* response and the staged file stays on disk, however long that lasts;    *)
(* once the subprocess has closed, with any exit code, the response        *)
(* follows.                                                                *)
(***************************************************************************)
Launched(req) == req.launch = "ok"

C21_OutcomeIffClosed ==
    /\ [](\A r \in Reqs :
            Launched(rq[r]) =>
                /\ Responded(rq[r]) <=> rq[r].closed
                /\ ~rq[r].closed => rq[r].filePath \in disk)
    /\ \A r \in Reqs :
         (Launched(rq[r]) /\ rq[r].closed) ~> Responded(rq[r])

\* Everything the child wrote has been received and only its exit is
\* awaited.
C21_Witness ==
    \E r \in Reqs :
        /\ Launched(rq[r])
        /\ rq[r].pc = "running"
        /\ rq[r].outPos = Len(rq[r].script)
        /\ Len(rq[r].errLog) = MaxStderrChunks
        /\ ~rq[r].closed
        /\ ~Responded(rq[r])
        /\ rq[r].filePath \in disk

(***************************************************************************)
(* C22: when the file field or the namingConvention field arrives as a     *)
(* list of several values, the first value is the one used and the         *)
(* request goes on to the analysis; the list is never what makes the       *)
(* request fail.                                                           *)
(***************************************************************************)
MultiValue(v) == IsArray(v) /\ Len(v.items) > 1

MultiValueRequest(req) ==
    /\ IsPost(req)
    /\ ~PartMissing(req)
    /\ ~Oversized(req)
    /\ MultiValue(req.upload.file) \/ MultiValue(req.upload.namingConvention)
    /\ req.pc \notin {"idle", "parsing"}

C22_FirstOfMultiValueUsed ==
    \A r \in Reqs :
        MultiValueRequest(rq[r]) =>
            /\ Len(rq[r].spawnCalls) = 1
            /\ rq[r].spawnCalls[1].args[2] = rq[r].upload.file.items[1].filepath
            /\ rq[r].spawnCalls[1].args[3] =
                 Single(rq[r].upload.namingConvention.items[1])
            /\ rq[r].filePath = rq[r].upload.file.items[1].filepath
            /\ \A i \in 1..Len(rq[r].resps) :
                 rq[r].resps[i].status >= 400 =>
                     \/ rq[r].closed /\ rq[r].code # 0
                     \/ LaunchFailed(rq[r])

C22_Witness ==
    \E r \in Reqs :
        /\ MultiValue(rq[r].upload.file)
        /\ MultiValue(rq[r].upload.namingConvention)
        /\ rq[r].upload.file.items[1] # rq[r].upload.file.items[2]
        /\ Len(rq[r].spawnCalls) = 1
        /\ rq[r].spawnCalls[1].args[2] = StagedFile(r, 1).filepath
        /\ rq[r].closed
        /\ rq[r].code = 0
        /\ rq[r].resps[1].status = 200

(***************************************************************************)
(* C23: a stdout chunk that holds none of the three markers leaves         *)
(* extractedInfo and newFilename as they were before it, so what earlier   *)
(* chunks captured is still there after any number of marker-free chunks.  *)
(***************************************************************************)
\* The text of the chunk a stdout step has delivered.
ChunkOf(old, new) == Flatten(old.script, old.outPos + 1, new.outPos)

C23_MarkerFreeChunkKeepsFields ==
    [][\A r \in Reqs :
          ( /\ StdoutArrived(rq[r], rq'[r])
            /\ NoMarkerIn(ChunkOf(rq[r], rq'[r])) )
          => /\ rq'[r].extractedInfo = rq[r].extractedInfo
             /\ rq'[r].newFilename = rq[r].newFilename]_vars

\* "I" and "A" were captured, and the three writes after them ("File",
\* the rest of the rename marker, " B"), each a chunk of its own, hold no
\* whole marker.
C23_Witness ==
    \E r \in Reqs :
        /\ rq[r].script = ScriptFull
        /\ rq[r].outPos = Len(ScriptFull)
        /\ Includes(Received(rq[r]), MarkerRenamed)
        /\ rq[r].extractedInfo = <<"I">>
        /\ rq[r].newFilename = <<"A">>
        /\ rq[r].closed
        /\ rq[r].code = 0
        /\ rq[r].resps[1].result.newFilename = <<"A">>

(***************************************************************************)
(* C24: a request whose method is neither POST nor OPTIONS is answered     *)
(* 405 'Method not allowed' and nothing else is done for it: the upload    *)
(* directory is not created, no form is parsed, no file is staged and no   *)
(* subprocess is spawned.                                                  *)
(***************************************************************************)
OtherMethod(req) == req.pc # "idle" /\ req.method \notin {"POST", "OPTIONS"}

C24_OtherMethodRejectedFirst ==
    [][\A r \in Reqs :
          OtherMethod(rq'[r]) =>
              /\ rq'[r].resps = <<MethodNotAllowedResponse>>
              /\ rq'[r].resps[1].status = 405
              /\ rq'[r].pc = "done"
              /\ rq'[r].staged = {}
              /\ rq'[r].spawnCalls = <<>>
              /\ rq'[r].launch = "none"
              /\ rq'[r] # rq[r] => (uploadDir' = uploadDir /\ disk' = disk)]_vars

C24_Witness ==
    \E r \in Reqs :
        /\ rq[r].method = "GET"
        /\ rq[r].upload.file # Undefined
        /\ rq[r].upload.namingConvention # Undefined
        /\ rq[r].resps[1].message = MsgMethodNotAllowed
        /\ ~uploadDir
        /\ disk = {}

=============================================================================
